---- MODULE Spec2Model ----
(***************************************************************************)
(* Quiz session state machine of app.py: the in-memory state of the pod,   *)
(* the request handlers register / rename / submit / start / advance /     *)
(* reset, deferred scoring and the leaderboard snapshot.                   *)
(*                                                                         *)
(* Names are sequences of characters, so that normalize_name (strip,       *)
(* whitespace collapse, length limit) and casefold are computed, not       *)
(* assumed.  Clock readings are integers in milliseconds.                  *)
(***************************************************************************)
EXTENDS Integers, Sequences, FiniteSets, TLC

VARIABLES PLAYERS, NAME_INDEX, SCORES, SUBMITTED, CURRENT_ANSWERS,
          LAST_SUBMISSION_TS, PHASE, CURRENT_INDEX, LAST_SCORED_INDEX,
          LB_ROWS_SNAPSHOT, LB_WINNERS_SNAPSHOT, LB_MAX_SNAPSHOT,
          QUIZ_SESSION, questions, now, result, inflight

vars == <<PLAYERS, NAME_INDEX, SCORES, SUBMITTED, CURRENT_ANSWERS,
          LAST_SUBMISSION_TS, PHASE, CURRENT_INDEX, LAST_SCORED_INDEX,
          LB_ROWS_SNAPSHOT, LB_WINNERS_SNAPSHOT, LB_MAX_SNAPSHOT,
          QUIZ_SESSION, questions, now, result, inflight>>

registry == <<PLAYERS, NAME_INDEX, SCORES>>
board == <<SUBMITTED, CURRENT_ANSWERS, LAST_SUBMISSION_TS>>
snapshot == <<LB_ROWS_SNAPSHOT, LB_WINNERS_SNAPSHOT, LB_MAX_SNAPSHOT>>
session == <<PHASE, CURRENT_INDEX, LAST_SCORED_INDEX, QUIZ_SESSION>>

---------------------------------------------------------------------------
(* Bounds of the model *)

MaxQuestions == 2
NumThreads == 2
TickMs == 300
StartMs == 1000

(* Program constants *)

MaxNameLen == 40
CooldownMs == 300

---------------------------------------------------------------------------
(* Names: normalize_name and casefold *)

Repeat(c, n) == [i \in 1..n |-> c]

IsSpace(c) == c = " "

RECURSIVE LStrip(_)
LStrip(s) == IF s # <<>> /\ IsSpace(Head(s)) THEN LStrip(Tail(s)) ELSE s

RECURSIVE RStrip(_)
RStrip(s) ==
    IF s # <<>> /\ IsSpace(s[Len(s)]) THEN RStrip(SubSeq(s, 1, Len(s) - 1)) ELSE s

Strip(s) == RStrip(LStrip(s))

\* re.sub(r"\s+", " ", name): every run of whitespace becomes one space
RECURSIVE Collapse(_)
Collapse(s) ==
    IF s = <<>> THEN <<>>
    ELSE IF IsSpace(Head(s))
         THEN <<" ">> \o Collapse(LStrip(s))
         ELSE <<Head(s)>> \o Collapse(Tail(s))

TooLong(nm) == Len(nm) > MaxNameLen

normalize_name(name) ==
    LET nm == Collapse(Strip(name))
    IN  IF nm = <<>> \/ TooLong(nm) THEN <<>> ELSE nm

\* the key keeps the case of the name: no folding
FoldChar_Identity(c) == c

FoldChar(c) == IF c = "A" THEN "a" ELSE c

casefold(s) == [i \in 1..Len(s) |-> FoldChar(s[i])]

\* The names requests carry: absent, blank, two spellings of a short key, a
\* padded name with a run of blanks that is at the length limit once
\* normalized, and a padded name beyond the limit.
RawNameList ==
    << <<>>, <<" ">>, <<"a">>, <<"A">>,
       <<" ", "a", " ", " ">> \o Repeat("b", MaxNameLen - 2) \o <<" ">>,
       <<" ", "a", " ">> \o Repeat("b", MaxNameLen - 1) \o <<" ">> >>

\* A request names its name by position in the list
RawNames == DOMAIN RawNameList

\* The conversions of the request names, tabulated once
Tabulated(f) == f \o <<>>
Stripped == Tabulated([r \in RawNames |-> Strip(RawNameList[r])])
Normalized == Tabulated([r \in RawNames |-> normalize_name(RawNameList[r])])
KeyOf == Tabulated([r \in RawNames |-> casefold(normalize_name(Strip(RawNameList[r])))])

None == "None"
Options == {"0", "1"}
Answers == Options \cup {None}
AnswerKeys == {"1", None}

Phases == {"lobby", "question", "answer", "reveal", "final"}

---------------------------------------------------------------------------
(* Responses of the handlers *)

\* no request is being answered
NoResponse == [status |-> 0, body |-> [pending |-> FALSE]]

\* jsonify({"ok": ok, "message": message}), status
Reply(ok, message, status) == [status |-> status, body |-> [ok |-> ok, message |-> message]]

\* jsonify({"accepted": False, "message": message}), status
Refusal(message, status) ==
    [status |-> status, body |-> [accepted |-> FALSE, message |-> message]]

RegisterOk == [status |-> 200, body |-> [ok |-> TRUE]]
NameRequired == Reply(FALSE, "Name required", 400)
NamesLocked == Reply(FALSE, "Quiz already started - name changes are locked.", 400)
NameTaken == Reply(FALSE, "That name is already taken. Please pick a different name.", 400)
Accepted == [status |-> 200, body |-> [accepted |-> TRUE]]
NotAccepting == Refusal("Not accepting answers now", 400)
PleaseRegister == Refusal("Please register first", 400)
SlowDown == Refusal("Slow down", 429)
QuizStarted == Reply(TRUE, "Quiz started", 200)
ShowingAnswer == Reply(TRUE, "Showing correct answer", 200)
ShowingLeaderboard == Reply(TRUE, "Showing leaderboard", 200)
NextQuestion == Reply(TRUE, "Next question", 200)
QuizFinished == Reply(TRUE, "Quiz finished", 200)
StartFirst == Reply(FALSE, "Start the quiz first", 400)
AlreadyFinal == Reply(TRUE, "Already final", 200)
ResetComplete == Reply(TRUE, "Hard reset complete - players must register again", 200)

---------------------------------------------------------------------------
(* SCORES: a dict in insertion order, a sequence of <<name, score>> items *)

ScoreNames(S) == {S[i][1] : i \in 1..Len(S)}

ScoreGet(S, name) ==
    IF name \in ScoreNames(S)
    THEN LET i == CHOOSE j \in 1..Len(S) : S[j][1] = name IN S[i][2]
    ELSE 0

\* S[name] = v: in place when the key exists, appended otherwise
ScoreSet(S, name, v) ==
    IF name \in ScoreNames(S)
    THEN [i \in 1..Len(S) |-> IF S[i][1] = name THEN <<name, v>> ELSE S[i]]
    ELSE Append(S, <<name, v>>)

ScorePop(S, name) == SelectSeq(S, LAMBDA it : it[1] # name)

\* The orders in which a set can be iterated
Orders(S) ==
    {o \in [1..Cardinality(S) -> S] : \A i, j \in 1..Cardinality(S) : o[i] = o[j] => i = j}

DictPop(d, k) == [x \in DOMAIN d \ {k} |-> d[x]]
DictSet(d, k, v) == [x \in DOMAIN d \cup {k} |-> IF x = k THEN v ELSE d[x]]

---------------------------------------------------------------------------
(* Question bank, scoring, leaderboard snapshot *)

\* load_questions(): the bank is fixed for the life of a session
\* the i-th question: its text, its options, no note, and the given answer key
Question(i, key) == [text |-> i, options |-> <<"0", "1">>, note |-> None, answer |-> key]

Banks ==
    UNION {{[i \in 1..n |-> Question(i, keys[i])] : keys \in [1..n -> AnswerKeys]} :
           n \in 0..MaxQuestions}

HasQuestion(idx) == 0 <= idx /\ idx < Len(questions)

\* current_question().get("answer"), None when there is no current question
CorrectIdx(idx) == IF HasQuestion(idx) THEN questions[idx + 1].answer ELSE None

AnswerOf(answers, name) == IF name \in DOMAIN answers THEN answers[name] ELSE None

\* any answer given scores
Awarded_AnyAnswer(ans, correct) == ans # None

Awarded(ans, correct) == ans = correct

RECURSIVE ScoreLoop(_, _, _, _)
ScoreLoop(S, order, answers, correct) ==
    IF order = <<>> THEN S
    ELSE LET name == Head(order)
             S2 == IF Awarded(AnswerOf(answers, name), correct)
                   THEN ScoreSet(S, name, ScoreGet(S, name) + 1)
                   ELSE S
         IN  ScoreLoop(S2, Tail(order), answers, correct)

AlreadyScored(idx, last) == idx = -1 \/ idx = last

\* score_current_question_once(): the scores after the call
ScoredScores(S, order, answers, idx, last) ==
    IF AlreadyScored(idx, last) THEN S
    ELSE IF ~HasQuestion(idx) \/ CorrectIdx(idx) = None THEN S
    ELSE ScoreLoop(S, order, answers, CorrectIdx(idx))

\* a question without an answer key is left unmarked
ScoredMarker_OnlyWithKey(idx, last) ==
    IF AlreadyScored(idx, last) \/ CorrectIdx(idx) = None THEN last ELSE idx

\* score_current_question_once(): the marker after the call
ScoredMarker(idx, last) == IF AlreadyScored(idx, last) THEN last ELSE idx

score_current_question_once(answers) ==
    /\ \E order \in Orders(PLAYERS) :
          SCORES' = ScoredScores(SCORES, order, answers, CURRENT_INDEX, LAST_SCORED_INDEX)
    /\ LAST_SCORED_INDEX' = ScoredMarker(CURRENT_INDEX, LAST_SCORED_INDEX)

RECURSIVE SeqMax(_)
SeqMax(S) ==
    IF Len(S) = 1 THEN S[1][2]
    ELSE LET m == SeqMax(Tail(S)) IN IF S[1][2] >= m THEN S[1][2] ELSE m

\* a tie at the top names the first holder of the maximum only
winners_from_scores_FirstOnly(S) ==
    IF S = <<>> THEN <<(<<>>), 0>>
    ELSE LET mx == SeqMax(S)
             win == SelectSeq(S, LAMBDA it : it[2] = mx)
         IN  <<(<<win[1][1]>>), mx>>

\* winners_from_scores(): <<winners, max>>
winners_from_scores(S) ==
    IF S = <<>> THEN <<(<<>>), 0>>
    ELSE LET mx == SeqMax(S)
             win == SelectSeq(S, LAMBDA it : it[2] = mx)
         IN  <<[i \in 1..Len(win) |-> win[i][1]], mx>>

\* insert an item behind every item whose score is not smaller (stable)
RECURSIVE InsertDesc(_, _)
InsertDesc(it, sorted) ==
    IF sorted = <<>> THEN <<it>>
    ELSE IF Head(sorted)[2] >= it[2]
         THEN <<Head(sorted)>> \o InsertDesc(it, Tail(sorted))
         ELSE <<it>> \o sorted

\* sorted(SCORES.items(), key=score, reverse=True)
RECURSIVE SortedDesc(_)
SortedDesc(S) ==
    IF S = <<>> THEN <<>>
    ELSE InsertDesc(S[Len(S)], SortedDesc(SubSeq(S, 1, Len(S) - 1)))

snapshot_leaderboard(S) ==
    /\ LB_ROWS_SNAPSHOT' = SortedDesc(S)
    /\ LB_WINNERS_SNAPSHOT' = winners_from_scores(S)[1]
    /\ LB_MAX_SNAPSHOT' = winners_from_scores(S)[2]

clear_leaderboard_snapshot ==
    /\ LB_ROWS_SNAPSHOT' = <<>>
    /\ LB_WINNERS_SNAPSHOT' = <<>>
    /\ LB_MAX_SNAPSHOT' = 0

bump_session == QUIZ_SESSION' = now

---------------------------------------------------------------------------
(* Handlers in flight: the server runs each request in a thread of its own.
   A thread holds the position of its handler and the handler's locals *)

Threads == 1..NumThreads

IdleThread ==
    [pc |-> "idle", ret |-> "idle", key |-> <<>>, canonical |-> <<>>, answer |-> None,
     correct |-> None, todo |-> <<>>, ans |-> None, rows |-> <<>>]

---------------------------------------------------------------------------
(* Initial state: module load *)

Init ==
    /\ PLAYERS = {}
    /\ NAME_INDEX = <<>>
    /\ SCORES = <<>>
    /\ SUBMITTED = {}
    /\ CURRENT_ANSWERS = <<>>
    /\ LAST_SUBMISSION_TS = <<>>
    /\ PHASE = "lobby"
    /\ CURRENT_INDEX = -1
    /\ LAST_SCORED_INDEX = -1
    /\ LB_ROWS_SNAPSHOT = <<>>
    /\ LB_WINNERS_SNAPSHOT = <<>>
    /\ LB_MAX_SNAPSHOT = 0
    /\ now = StartMs
    /\ QUIZ_SESSION = now \div 1000
    /\ questions \in Banks
    /\ result = NoResponse
    /\ inflight = [t \in Threads |-> IdleThread]

---------------------------------------------------------------------------
(* POST /api/register: register, or rename when prev is given *)

Registered(key) == key \in DOMAIN NAME_INDEX

\* the presence check is missing: the name is inserted again
NewRegistration_NoCheck(new_norm, new_lower) ==
    /\ PLAYERS' = PLAYERS \cup {new_norm}
    /\ NAME_INDEX' = DictSet(NAME_INDEX, new_lower, new_norm)
    /\ SCORES' = ScoreSet(SCORES, new_norm, ScoreGet(SCORES, new_norm))
    /\ result' = RegisterOk

\* a registration always starts the name's score at 0
NewRegistration_ZeroesScore(new_norm, new_lower) ==
    /\ PLAYERS' = PLAYERS \cup {new_norm}
    /\ NAME_INDEX' = DictSet(NAME_INDEX, new_lower, new_norm)
    /\ SCORES' = ScoreSet(SCORES, new_norm, 0)
    /\ result' = RegisterOk

\* lines 602-608: new registration, a no-op when the key is present
NewRegistration(new_norm, new_lower) ==
    IF Registered(new_lower)
    THEN /\ result' = RegisterOk
         /\ UNCHANGED registry
    ELSE /\ PLAYERS' = PLAYERS \cup {new_norm}
         /\ NAME_INDEX' = DictSet(NAME_INDEX, new_lower, new_norm)
         /\ SCORES' = ScoreSet(SCORES, new_norm, ScoreGet(SCORES, new_norm))
         /\ result' = RegisterOk

\* lines 585-599: migrate the player's state to the new canonical name
Migrate(prev_lower, new_norm, new_lower) ==
    LET old_canon == NAME_INDEX[prev_lower]
        old_score == ScoreGet(SCORES, old_canon)
    IN  /\ NAME_INDEX' = DictSet(DictPop(NAME_INDEX, prev_lower), new_lower, new_norm)
        /\ PLAYERS' = (PLAYERS \ {old_canon}) \cup {new_norm}
        /\ SCORES' = ScoreSet(ScorePop(SCORES, old_canon), new_norm, old_score)
        /\ SUBMITTED' = SUBMITTED \ {old_canon}
        /\ CURRENT_ANSWERS' = DictPop(CURRENT_ANSWERS, old_canon)
        /\ LAST_SUBMISSION_TS' = DictPop(LAST_SUBMISSION_TS, old_canon)
        /\ result' = RegisterOk

\* the phase check is missing
RenameLocked_Never == FALSE

RenameLocked == PHASE # "lobby"

SameName(prev_exists, prev_lower, new_lower) == prev_exists /\ prev_lower = new_lower

api_register(requested, prev_raw) ==
    LET prev == Stripped[prev_raw]
        new_norm == Normalized[requested]
        new_lower == KeyOf[requested]
        prev_lower == KeyOf[prev_raw]
        prev_exists == Registered(prev_lower)
    IN  /\ UNCHANGED <<session, snapshot, questions, now>>
        /\ IF new_norm = <<>>
           THEN /\ result' = NameRequired
                /\ UNCHANGED <<registry, board>>
           ELSE IF prev # <<>>
           THEN IF SameName(prev_exists, prev_lower, new_lower)
                THEN /\ result' = RegisterOk
                     /\ UNCHANGED <<registry, board>>
                ELSE IF RenameLocked
                THEN /\ result' = NamesLocked
                     /\ UNCHANGED <<registry, board>>
                ELSE IF Registered(new_lower)
                THEN /\ result' = NameTaken
                     /\ UNCHANGED <<registry, board>>
                ELSE IF prev_exists
                THEN Migrate(prev_lower, new_norm, new_lower)
                ELSE /\ NewRegistration(new_norm, new_lower)
                     /\ UNCHANGED board
           ELSE /\ NewRegistration(new_norm, new_lower)
                /\ UNCHANGED board

\* The server answers one request at a time: a handler runs when no response
\* is pending, and its response is then returned to the caller
Idle == result = NoResponse

Respond ==
    /\ result # NoResponse
    /\ result' = NoResponse
    /\ UNCHANGED <<registry, board, session, snapshot, questions, now, inflight>>

\* register(name): the request carries no previous name
Register(name) ==
    /\ Idle
    /\ \E absent \in RawNames : RawNameList[absent] = <<>> /\ api_register(name, absent)
    /\ UNCHANGED inflight

\* rename(prev, name): the request carries a previous name
Rename(prev, name) ==
    Idle /\ Stripped[prev] # <<>> /\ api_register(name, prev) /\ UNCHANGED inflight

---------------------------------------------------------------------------
(* Phase changes *)

\* the answers of the question before are kept
_advance_to_question_KeepsBoard ==
    /\ PHASE' = "question"
    /\ UNCHANGED <<SUBMITTED, CURRENT_ANSWERS>>

_advance_to_question ==
    /\ PHASE' = "question"
    /\ SUBMITTED' = {}
    /\ CURRENT_ANSWERS' = <<>>

\* the leaderboard is recomputed with the answer shown
_advance_to_answer_Snapshots(answers) ==
    /\ score_current_question_once(answers)
    /\ PHASE' = "answer"
    /\ snapshot_leaderboard(SCORES')

_advance_to_answer(answers) ==
    /\ score_current_question_once(answers)
    /\ PHASE' = "answer"
    /\ UNCHANGED snapshot

_advance_to_reveal ==
    /\ PHASE' = "reveal"
    /\ snapshot_leaderboard(SCORES)

_advance_to_final ==
    /\ PHASE' = "final"
    /\ snapshot_leaderboard(SCORES)

---------------------------------------------------------------------------
(* POST /api/submit *)

\* answers are taken while the answer is shown too
AcceptingAnswers_UntilReveal == PHASE \in {"question", "answer"}

AcceptingAnswers == PHASE = "question"

\* the comparison is turned around: only a late submission is limited
Throttled_Inverted(ts, canonical, t) ==
    canonical \in DOMAIN ts /\ t - ts[canonical] > CooldownMs

Throttled(ts, canonical, t) == canonical \in DOMAIN ts /\ t - ts[canonical] < CooldownMs

\* strict comparison: the last submission does not trigger the transition
AllSubmitted_Strict(players, submitted) ==
    Cardinality(players) > 0 /\ Cardinality(submitted) > Cardinality(players)

AllSubmitted(players, submitted) ==
    Cardinality(players) > 0 /\ Cardinality(submitted) >= Cardinality(players)

api_submit(raw, answer) ==
    LET name == Stripped[raw]
        lower == IF name # <<>> THEN KeyOf[raw] ELSE <<>>
    IN  /\ UNCHANGED <<PLAYERS, NAME_INDEX, CURRENT_INDEX, QUIZ_SESSION, questions, now>>
        /\ IF ~AcceptingAnswers
           THEN /\ result' = NotAccepting
                /\ UNCHANGED <<SCORES, board, PHASE, LAST_SCORED_INDEX, snapshot>>
           ELSE IF ~Registered(lower)
           THEN /\ result' = PleaseRegister
                /\ UNCHANGED <<SCORES, board, PHASE, LAST_SCORED_INDEX, snapshot>>
           ELSE LET canonical == NAME_INDEX[lower] IN
                IF Throttled(LAST_SUBMISSION_TS, canonical, now)
                THEN /\ result' = SlowDown
                     /\ UNCHANGED <<SCORES, board, PHASE, LAST_SCORED_INDEX, snapshot>>
                ELSE /\ LAST_SUBMISSION_TS' = DictSet(LAST_SUBMISSION_TS, canonical, now)
                     /\ CURRENT_ANSWERS' = DictSet(CURRENT_ANSWERS, canonical, answer)
                     /\ SUBMITTED' = SUBMITTED \cup {canonical}
                     /\ IF AllSubmitted(PLAYERS, SUBMITTED')
                        THEN _advance_to_answer(CURRENT_ANSWERS')
                        ELSE UNCHANGED <<SCORES, PHASE, LAST_SCORED_INDEX, snapshot>>
                     /\ result' = Accepted

Submit(raw, answer) == Idle /\ api_submit(raw, answer) /\ UNCHANGED inflight

---------------------------------------------------------------------------
(* Admin controls; the caller is a logged-in admin *)

\* >= for >: the empty bank is not told apart
StartIndex_AlwaysZero == IF Len(questions) >= 0 THEN 0 ELSE -1

StartIndex == IF Len(questions) > 0 THEN 0 ELSE -1

\* the empty bank is not told apart
StartPhase_AlwaysQuestion(idx) == "question"

StartPhase(idx) == IF idx >= 0 THEN "question" ELSE "final"

\* the snapshot is cleared and not taken again when the quiz ends at once
api_admin_start_NoFinalSnapshot ==
    /\ bump_session
    /\ \E order \in Orders(PLAYERS) :
          SCORES' = [i \in 1..Len(order) |-> <<order[i], 0>>]
    /\ SUBMITTED' = {}
    /\ CURRENT_ANSWERS' = <<>>
    /\ LAST_SCORED_INDEX' = -1
    /\ CURRENT_INDEX' = StartIndex
    /\ PHASE' = StartPhase(CURRENT_INDEX')
    /\ clear_leaderboard_snapshot
    /\ result' = QuizStarted
    /\ UNCHANGED <<PLAYERS, NAME_INDEX, LAST_SUBMISSION_TS, questions, now>>

api_admin_start ==
    /\ bump_session
    /\ \E order \in Orders(PLAYERS) :
          SCORES' = [i \in 1..Len(order) |-> <<order[i], 0>>]
    /\ SUBMITTED' = {}
    /\ CURRENT_ANSWERS' = <<>>
    /\ LAST_SCORED_INDEX' = -1
    /\ CURRENT_INDEX' = StartIndex
    /\ PHASE' = StartPhase(CURRENT_INDEX')
    /\ IF PHASE' = "final"
       THEN snapshot_leaderboard(SCORES')
       ELSE clear_leaderboard_snapshot
    /\ result' = QuizStarted
    /\ UNCHANGED <<PLAYERS, NAME_INDEX, LAST_SUBMISSION_TS, questions, now>>

\* off by one: the last question counts as having a successor
HasNext_OffByOne(idx) == idx + 1 <= Len(questions)

HasNext(idx) == idx + 1 < Len(questions)

\* the lobby is not told apart from the end of the quiz
NotStarted_Never == FALSE

NotStarted == PHASE = "lobby"

api_admin_advance ==
    /\ UNCHANGED <<PLAYERS, NAME_INDEX, LAST_SUBMISSION_TS, QUIZ_SESSION, questions, now>>
    /\ IF PHASE = "question"
       THEN /\ _advance_to_answer(CURRENT_ANSWERS)
            /\ result' = ShowingAnswer
            /\ UNCHANGED <<CURRENT_INDEX, SUBMITTED, CURRENT_ANSWERS>>
       ELSE IF PHASE = "answer"
       THEN /\ _advance_to_reveal
            /\ result' = ShowingLeaderboard
            /\ UNCHANGED <<CURRENT_INDEX, SCORES, SUBMITTED, CURRENT_ANSWERS,
                           LAST_SCORED_INDEX>>
       ELSE IF PHASE = "reveal"
       THEN IF HasNext(CURRENT_INDEX)
            THEN /\ CURRENT_INDEX' = CURRENT_INDEX + 1
                 /\ _advance_to_question
                 /\ result' = NextQuestion
                 /\ UNCHANGED <<SCORES, LAST_SCORED_INDEX, snapshot>>
            ELSE /\ _advance_to_final
                 /\ result' = QuizFinished
                 /\ UNCHANGED <<CURRENT_INDEX, SCORES, SUBMITTED, CURRENT_ANSWERS,
                                LAST_SCORED_INDEX>>
       ELSE IF NotStarted
       THEN /\ result' = StartFirst
            /\ UNCHANGED <<PHASE, CURRENT_INDEX, SCORES, SUBMITTED, CURRENT_ANSWERS,
                           LAST_SCORED_INDEX, snapshot>>
       ELSE /\ result' = AlreadyFinal
            /\ UNCHANGED <<PHASE, CURRENT_INDEX, SCORES, SUBMITTED, CURRENT_ANSWERS,
                           LAST_SCORED_INDEX, snapshot>>

\* the throttle timestamps outlive the reset
api_admin_reset_KeepsTimestamps ==
    /\ PHASE' = "lobby"
    /\ CURRENT_INDEX' = -1
    /\ PLAYERS' = {}
    /\ NAME_INDEX' = <<>>
    /\ SCORES' = <<>>
    /\ SUBMITTED' = {}
    /\ CURRENT_ANSWERS' = <<>>
    /\ LAST_SCORED_INDEX' = -1
    /\ clear_leaderboard_snapshot
    /\ bump_session
    /\ result' = ResetComplete
    /\ UNCHANGED <<LAST_SUBMISSION_TS, questions, now>>

api_admin_reset ==
    /\ PHASE' = "lobby"
    /\ CURRENT_INDEX' = -1
    /\ PLAYERS' = {}
    /\ NAME_INDEX' = <<>>
    /\ SCORES' = <<>>
    /\ SUBMITTED' = {}
    /\ CURRENT_ANSWERS' = <<>>
    /\ LAST_SUBMISSION_TS' = <<>>
    /\ LAST_SCORED_INDEX' = -1
    /\ clear_leaderboard_snapshot
    /\ bump_session
    /\ result' = ResetComplete
    /\ UNCHANGED <<questions, now>>

---------------------------------------------------------------------------
(* Read queries; an absent value (None) is the empty sequence *)

\* the question record is handed out as it is, answer key included
PublicQuestion_WholeRecord(idx) == IF HasQuestion(idx) THEN <<questions[idx + 1]>> ELSE <<>>

\* q_pub: the current question without its answer key
PublicQuestion(idx) ==
    IF HasQuestion(idx)
    THEN LET q == questions[idx + 1]
         IN  <<[text |-> q.text, options |-> q.options, note |-> q.note]>>
    ELSE <<>>

\* int(q.get("answer")), None when the conversion fails
IntOf(key) == IF key = "0" THEN <<0>> ELSE IF key = "1" THEN <<1>> ELSE <<>>

PublicBody ==
    [session |-> QUIZ_SESSION,
     phase |-> PHASE,
     current_index |-> CURRENT_INDEX,
     total_questions |-> Len(questions),
     players_count |-> Cardinality(PLAYERS),
     submissions_count |-> Cardinality(SUBMITTED),
     question |-> PublicQuestion(CURRENT_INDEX)]

AdminBody ==
    [session |-> QUIZ_SESSION,
     phase |-> PHASE,
     current_index |-> CURRENT_INDEX,
     total_questions |-> Len(questions),
     players_count |-> Cardinality(PLAYERS),
     submissions_count |-> Cardinality(SUBMITTED),
     question |-> PublicQuestion(CURRENT_INDEX),
     correct_answer_index |-> IntOf(CorrectIdx(CURRENT_INDEX))]

LeaderboardBody ==
    [rows |-> LB_ROWS_SNAPSHOT, winners |-> LB_WINNERS_SNAPSHOT, max_score |-> LB_MAX_SNAPSHOT]

api_state ==
    /\ result' = [status |-> 200, body |-> PublicBody]
    /\ UNCHANGED <<registry, board, session, snapshot, questions, now>>

api_admin_state ==
    /\ result' = [status |-> 200, body |-> AdminBody]
    /\ UNCHANGED <<registry, board, session, snapshot, questions, now>>

\* the query recomputes the leaderboard from the live scores
api_leaderboard_Refreshes ==
    /\ snapshot_leaderboard(SCORES)
    /\ result' = [status |-> 200, body |-> LeaderboardBody]
    /\ UNCHANGED <<registry, board, session, questions, now>>

api_leaderboard ==
    /\ result' = [status |-> 200, body |-> LeaderboardBody]
    /\ UNCHANGED <<registry, board, session, snapshot, questions, now>>

PublicState == Idle /\ api_state /\ UNCHANGED inflight
AdminState == Idle /\ api_admin_state /\ UNCHANGED inflight
Leaderboard == Idle /\ api_leaderboard /\ UNCHANGED inflight

Start == Idle /\ api_admin_start /\ UNCHANGED inflight
Advance == Idle /\ api_admin_advance /\ UNCHANGED inflight
Reset == Idle /\ api_admin_reset /\ UNCHANGED inflight

\* time.time() moves on between requests; the clock is followed until a
\* cooldown has elapsed since the module was loaded
Tick ==
    /\ Idle
    /\ now < StartMs + CooldownMs
    /\ now' = now + TickMs
    /\ UNCHANGED <<registry, board, session, snapshot, questions, result, inflight>>

Next ==
    \/ \E name \in RawNames : Register(name)
    \/ \E prev, name \in RawNames : Rename(prev, name)
    \/ \E raw \in RawNames, answer \in Answers : Submit(raw, answer)
    \/ Start
    \/ Advance
    \/ Reset
    \/ PublicState
    \/ AdminState
    \/ Leaderboard
    \/ Respond
    \/ Tick

Spec == Init /\ [][Next]_vars

---------------------------------------------------------------------------
(* Phase order of a quiz *)

NumQuestions == Len(questions)

PhaseOrd(p) == CASE p = "question" -> 0 [] p = "answer" -> 1 [] p = "reveal" -> 2 [] OTHER -> 0

\* Position of a started session in the sequence q0 a0 r0 q1 a1 r1 ... final
Pos == IF PHASE = "final" THEN 3 * NumQuestions ELSE 3 * CURRENT_INDEX + PhaseOrd(PHASE)

InQuiz(p) == p \in {"question", "answer", "reveal"}

AdvanceOk == {ShowingAnswer, ShowingLeaderboard, NextQuestion, QuizFinished, AlreadyFinal}

\* C1: with N > 0 questions, start from lobby enters question 0, every advance
\* moves one position along q0 a0 r0 q1 ... r(N-1) final (so final is entered
\* by the 3N-th advance, the index growing by exactly 1 at each reveal ->
\* question step), and advance in final succeeds and changes neither phase
\* nor index.
C1_PhaseSequence ==
    [][NumQuestions > 0 =>
         /\ (PHASE = "lobby" /\ Start) => (PHASE' = "question" /\ CURRENT_INDEX' = 0 /\ Pos' = 0)
         /\ (InQuiz(PHASE) /\ Advance) =>
               /\ Pos' = Pos + 1
               /\ PHASE' = "final" <=> Pos' = 3 * NumQuestions
               /\ PHASE' # "final" => CURRENT_INDEX' < NumQuestions
               /\ CURRENT_INDEX' = CURRENT_INDEX + (IF PHASE' = "question" THEN 1 ELSE 0)
               /\ result' \in AdvanceOk
         /\ (PHASE = "final" /\ Advance) =>
               /\ PHASE' = "final"
               /\ CURRENT_INDEX' = CURRENT_INDEX
               /\ result' = AlreadyFinal]_vars

C1_Witness ==
    /\ NumQuestions = 2
    /\ PHASE = "final"
    /\ CURRENT_INDEX = 1
    /\ result = AlreadyFinal
    /\ PLAYERS # {}
    /\ LAST_SUBMISSION_TS = <<>>

\* The phase changes of the transition table, each with the response of the
\* request that makes it
TableStep ==
    \/ PHASE = "lobby" /\ PHASE' \in {"question", "final"} /\ result' = QuizStarted
    \/ PHASE = "question" /\ PHASE' = "answer" /\ result' \in {ShowingAnswer, Accepted}
    \/ PHASE = "answer" /\ PHASE' = "reveal" /\ result' = ShowingLeaderboard
    \/ PHASE = "reveal" /\ PHASE' = "question" /\ result' = NextQuestion
    \/ PHASE = "reveal" /\ PHASE' = "final" /\ result' = QuizFinished
    \/ PHASE' = "lobby" /\ result' = ResetComplete

\* A start, from whatever phase: question 0, or final when the bank is empty
RestartStep ==
    /\ result' = QuizStarted
    /\ PHASE' = (IF NumQuestions > 0 THEN "question" ELSE "final")
    /\ CURRENT_INDEX' = (IF NumQuestions > 0 THEN 0 ELSE -1)

\* C2 as stated: every change of phase is a transition of the table, and a
\* start enters question 0 from lobby only.
C2_Original ==
    [][/\ PHASE' # PHASE => TableStep
       /\ (Start /\ PHASE' = "question" /\ CURRENT_INDEX' = 0) => PHASE = "lobby"]_vars

\* C2 amended: every change of phase is a transition of the table or the
\* effect of a start, which is accepted in every phase and enters question 0
\* (final when the bank is empty).
C2_PhaseChanges ==
    [][/\ PHASE' # PHASE => (TableStep \/ RestartStep)
       /\ Start => RestartStep
       /\ (PHASE # "lobby" /\ Advance) => (PHASE' # PHASE => TableStep)]_vars

\* a start was accepted in a phase other than lobby: the throttle timestamps,
\* written only by submit and cleared only by reset, survive it
C2_Witness ==
    /\ result = QuizStarted
    /\ PHASE = "question"
    /\ CURRENT_INDEX = 0
    /\ LAST_SUBMISSION_TS # <<>>

\* C3 as stated: index -1 exactly in lobby, a valid question index elsewhere
C3_Original ==
    /\ CURRENT_INDEX = -1 <=> PHASE = "lobby"
    /\ PHASE # "lobby" => (0 <= CURRENT_INDEX /\ CURRENT_INDEX < NumQuestions)

\* C3 amended: index -1 exactly in lobby and in the final phase of a session
\* started on an empty bank; in every other state a valid question index.
C3_IndexRange ==
    /\ CURRENT_INDEX = -1 <=> (PHASE = "lobby" \/ (PHASE = "final" /\ NumQuestions = 0))
    /\ CURRENT_INDEX # -1 => (0 <= CURRENT_INDEX /\ CURRENT_INDEX < NumQuestions)
    /\ PHASE \in Phases
    /\ NumQuestions = 0 => PHASE \in {"lobby", "final"}

C3_Witness ==
    /\ NumQuestions = 0
    /\ PHASE = "final"
    /\ CURRENT_INDEX = -1
    /\ result = QuizStarted

ScoreOf(p) == ScoreGet(SCORES, p)

SubmitStep == \E raw \in RawNames, answer \in Answers : Submit(raw, answer)

\* C4: a player's score never exceeds the number of questions scored so far;
\* it grows only by 1, only in the step that moves the current question from
\* question to answer (the marker passing to that question), and only if the
\* player's last accepted option is the question's correct option; a null or
\* absent answer never scores.
C4_ScoreOnce ==
    /\ [](\A p \in PLAYERS : 0 <= ScoreOf(p) /\ ScoreOf(p) <= LAST_SCORED_INDEX + 1)
    /\ [][\A p \in PLAYERS \cap PLAYERS' :
            ScoreOf(p)' > ScoreOf(p) =>
               /\ ScoreOf(p)' = ScoreOf(p) + 1
               /\ PHASE = "question" /\ PHASE' = "answer"
               /\ CURRENT_INDEX' = CURRENT_INDEX
               /\ LAST_SCORED_INDEX = CURRENT_INDEX - 1
               /\ LAST_SCORED_INDEX' = CURRENT_INDEX
               /\ CorrectIdx(CURRENT_INDEX) # None
               /\ p \in DOMAIN CURRENT_ANSWERS'
               /\ CURRENT_ANSWERS'[p] = CorrectIdx(CURRENT_INDEX)]_vars

\* two players; one answered after the cooldown and holds the correct option,
\* the other submitted null; the last submission moved the phase to answer
C4_Witness ==
    /\ PHASE = "answer"
    /\ result = Accepted
    /\ CorrectIdx(CURRENT_INDEX) = "1"
    /\ \E p, q \in PLAYERS :
          /\ p # q
          /\ CURRENT_ANSWERS[p] = "1" /\ ScoreOf(p) = 1
          /\ LAST_SUBMISSION_TS[p] > StartMs
          /\ CURRENT_ANSWERS[q] = None /\ ScoreOf(q) = 0

\* C5: the accepted submit after which every registered player is in the
\* submitted set moves the phase from question to answer and runs scoring in
\* the same step; no state has phase question, a registered player and every
\* registered player in the submitted set.
C5_AutoAdvance ==
    /\ [](~(PHASE = "question" /\ PLAYERS # {} /\ PLAYERS \subseteq SUBMITTED))
    /\ [][(result' = Accepted /\ PLAYERS \subseteq SUBMITTED' /\ SubmitStep) =>
             /\ PHASE = "question" /\ PHASE' = "answer"
             /\ LAST_SCORED_INDEX' = CURRENT_INDEX]_vars

C5_Witness ==
    /\ PHASE = "answer"
    /\ result = Accepted
    /\ Cardinality(PLAYERS) = 2
    /\ SUBMITTED = PLAYERS
    /\ LAST_SCORED_INDEX = CURRENT_INDEX

ValidName(n) == Normalized[n] # <<>>

\* C6 as stated: a register (no previous name) of a valid name whose key is
\* registered under another canonical spelling fails with NameTaken and
\* leaves the registry unchanged.
C6_Original ==
    [][\A n \in RawNames :
         (/\ ValidName(n)
          /\ Registered(KeyOf[n])
          /\ NAME_INDEX[KeyOf[n]] # Normalized[n]
          /\ Register(n)) =>
            (result' = NameTaken /\ UNCHANGED registry)]_vars

\* C7: a register of a valid name succeeds and leaves its key registered; a
\* register of a name whose key is registered (as after a first call)
\* succeeds and changes nothing, in every phase.
C7_RegisterIdempotent ==
    [][\A n \in RawNames :
         (ValidName(n) /\ Register(n)) =>
            /\ result' = RegisterOk
            /\ KeyOf[n] \in DOMAIN NAME_INDEX'
            /\ NAME_INDEX'[KeyOf[n]] \in PLAYERS'
            /\ Registered(KeyOf[n]) => UNCHANGED <<registry, board, session, snapshot>>]_vars

\* everyone registered has submitted and the phase is answer: the register
\* answered last added nobody, it was a repeated registration
C7_Witness ==
    /\ result = RegisterOk
    /\ PHASE = "answer"
    /\ Cardinality(PLAYERS) = 2
    /\ SUBMITTED = PLAYERS
    /\ \E p \in PLAYERS : ScoreOf(p) = 1

\* case-folded key of a canonical name, letter by letter
KeyOfCanonical(p) == [i \in 1..Len(p) |-> IF p[i] = "A" THEN "a" ELSE p[i]]

\* C8: no two registered players have the same case-folded key.
C8_UniqueKeys ==
    \A p, q \in PLAYERS : KeyOfCanonical(p) = KeyOfCanonical(q) => p = q

C8_Witness ==
    /\ Cardinality(PLAYERS) = 2
    /\ result = RegisterOk
    /\ \E p \in PLAYERS : KeyOfCanonical(p) # p

RenameUnchanged == UNCHANGED <<registry, board, session, snapshot>>

\* C9 as stated (for valid new names): a rename of a registered prev to a
\* free key succeeds in lobby, and in every other phase any rename of a
\* registered prev fails with QuizInProgress.
C9_Original ==
    [][\A prev, new \in RawNames :
         (Registered(KeyOf[prev]) /\ ValidName(new) /\ Rename(prev, new)) =>
            IF PHASE = "lobby"
            THEN ~Registered(KeyOf[new]) => result' = RegisterOk
            ELSE result' = NamesLocked]_vars

\* C9 amended: for a registered prev and a valid new name: when new has
\* prev's own key the rename is acknowledged and changes nothing, in every
\* phase; otherwise outside lobby it fails with QuizInProgress and changes
\* nothing; in lobby it fails with NameTaken when new's key is registered and
\* otherwise succeeds: prev's key and canonical name are gone, new is
\* registered and holds prev's score.
C9_Rename ==
    [][\A prev, new \in RawNames :
         (Registered(KeyOf[prev]) /\ ValidName(new) /\ Rename(prev, new)) =>
            IF KeyOf[new] = KeyOf[prev]
            THEN result' = RegisterOk /\ RenameUnchanged
            ELSE IF PHASE # "lobby"
            THEN result' = NamesLocked /\ RenameUnchanged
            ELSE IF Registered(KeyOf[new])
            THEN result' = NameTaken /\ RenameUnchanged
            ELSE /\ result' = RegisterOk
                 /\ KeyOf[prev] \notin DOMAIN NAME_INDEX'
                 /\ NAME_INDEX[KeyOf[prev]] \notin PLAYERS'
                 /\ NAME_INDEX'[KeyOf[new]] = Normalized[new]
                 /\ PLAYERS' = (PLAYERS \ {NAME_INDEX[KeyOf[prev]]}) \cup {Normalized[new]}
                 /\ ScoreNames(SCORES') = PLAYERS'
                 /\ ScoreGet(SCORES', Normalized[new]) = ScoreOf(NAME_INDEX[KeyOf[prev]])]_vars

\* a rename was refused during a question while a player is registered
C9_Witness ==
    /\ result = NamesLocked
    /\ PHASE = "question"
    /\ PLAYERS # {}

\* C10 as stated: a rename whose previous name is not registered is a
\* register of the new name: same response, same resulting state.
C10_Original ==
    [][\A prev, new \in RawNames :
         (~Registered(KeyOf[prev]) /\ Rename(prev, new)) => Register(new)]_vars

---------------------------------------------------------------------------
(* Rejected submissions *)

\* the key a submit request is looked up under
SubmitKey(raw) == IF Stripped[raw] # <<>> THEN KeyOf[raw] ELSE <<>>

\* C11: a submit outside the question phase is refused with "Not accepting
\* answers now"; a submit in the question phase under a key that is not
\* registered is refused with "Please register first"; either way the recorded
\* answers, the submitted set, the throttle timestamps, the scores and the
\* phase stay as they were.
C11_SubmitRejected ==
    [][\A raw \in RawNames, answer \in Answers :
          (/\ PHASE # "question" \/ ~Registered(SubmitKey(raw))
           /\ Submit(raw, answer)) =>
             /\ result' = IF PHASE # "question" THEN NotAccepting ELSE PleaseRegister
             /\ UNCHANGED <<CURRENT_ANSWERS, SUBMITTED, LAST_SUBMISSION_TS, SCORES, PHASE>>]_vars

\* a registered player who answered the question is refused once the answer
\* is shown
C11_Witness ==
    /\ result = NotAccepting
    /\ PHASE = "answer"
    /\ SUBMITTED # {}

\* C12: a submit by a player whose last accepted submission is less than the
\* cooldown old is refused with "Slow down": the player's stored answer, the
\* submitted set, the recorded time of the last submission and the phase stay
\* as they were, so the refused submit never moves the phase to answer.
C12_RateLimited ==
    [][\A raw \in RawNames, answer \in Answers :
          (/\ PHASE = "question"
           /\ Registered(SubmitKey(raw))
           /\ NAME_INDEX[SubmitKey(raw)] \in DOMAIN LAST_SUBMISSION_TS
           /\ now - LAST_SUBMISSION_TS[NAME_INDEX[SubmitKey(raw)]] < CooldownMs
           /\ Submit(raw, answer)) =>
             /\ result' = SlowDown
             /\ UNCHANGED <<CURRENT_ANSWERS, SUBMITTED, LAST_SUBMISSION_TS, PHASE>>]_vars

\* one of two players submits again at once, the other has not answered yet
C12_Witness ==
    /\ result = SlowDown
    /\ PHASE = "question"
    /\ Cardinality(PLAYERS) = 2
    /\ Cardinality(SUBMITTED) = 1

---------------------------------------------------------------------------
(* Leaderboard snapshot *)

Answering(p) == p \in {"question", "answer"}

EmptySnapshot(rows, winners, mx) == rows = <<>> /\ winners = <<>> /\ mx = 0

\* C13 as stated: no step taken in phase question or answer that ends in
\* phase question or answer changes the leaderboard snapshot.
C13_Original ==
    [][(Answering(PHASE) /\ Answering(PHASE')) => UNCHANGED snapshot]_vars

\* C13, amended: a step taken in phase question or answer that ends in phase
\* question or answer leaves the leaderboard snapshot (rows, winners, maximum)
\* as it was, scoring steps included, unless the step is a start, which
\* empties the snapshot.
C13_SnapshotStable ==
    [][(Answering(PHASE) /\ Answering(PHASE')) =>
          IF Start
          THEN EmptySnapshot(LB_ROWS_SNAPSHOT', LB_WINNERS_SNAPSHOT', LB_MAX_SNAPSHOT')
          ELSE UNCHANGED snapshot]_vars

\* the second question has been scored and the snapshot still shows the
\* standing after the first
C13_Witness ==
    /\ PHASE = "answer"
    /\ CURRENT_INDEX = 1
    /\ LAST_SCORED_INDEX = 1
    /\ LB_ROWS_SNAPSHOT # <<>>
    /\ LB_ROWS_SNAPSHOT # SortedDesc(SCORES)
    /\ LB_MAX_SNAPSHOT # winners_from_scores(SCORES)[2]

\* the snapshot is the leaderboard of the score ledger S
SnapshotOf(rows, winners, mx, S) ==
    /\ Len(rows) = Len(S)
    /\ {rows[i] : i \in 1..Len(rows)} = {S[i] : i \in 1..Len(S)}
    /\ \A i \in 1..(Len(rows) - 1) : rows[i][2] >= rows[i + 1][2]
    /\ IF S = <<>> THEN mx = 0
       ELSE /\ \A i \in 1..Len(S) : S[i][2] <= mx
            /\ \E i \in 1..Len(S) : S[i][2] = mx
    /\ {winners[i] : i \in 1..Len(winners)} = {S[i][1] : i \in {j \in 1..Len(S) : S[j][2] = mx}}
    /\ \A i, j \in 1..Len(winners) : winners[i] = winners[j] => i = j

\* the step enters reveal or final: by a change of phase, or by a start
EntersLeaderboard == PHASE' \in {"reveal", "final"} /\ (PHASE' # PHASE \/ Start)

\* C14: right after every entry to reveal or final the snapshot holds one row
\* per player of the score ledger with that player's current score, the rows
\* in non-increasing order of score; max_score is the largest score (0 without
\* players) and the winners are exactly the players whose score is max_score.
C14_SnapshotOnEntry ==
    [][EntersLeaderboard =>
          SnapshotOf(LB_ROWS_SNAPSHOT', LB_WINNERS_SNAPSHOT', LB_MAX_SNAPSHOT', SCORES')]_vars

\* reveal is entered with the later registered player ahead: the rows are not
\* in the order of the ledger
C14_Witness ==
    /\ PHASE = "reveal"
    /\ result = ShowingLeaderboard
    /\ Len(SCORES) = 2
    /\ SCORES[1][2] < SCORES[2][2]
    /\ LB_ROWS_SNAPSHOT = <<SCORES[2], SCORES[1]>>
    /\ LB_WINNERS_SNAPSHOT = <<SCORES[2][1]>>

---------------------------------------------------------------------------
(* Reset, start and the session epoch *)

\* C15: a reset, from any reachable state, leaves phase lobby, current index
\* -1, no players, no name keys, no scores, no answers, nobody submitted, no
\* throttle timestamps, the last-scored marker at -1 and an empty snapshot:
\* the initial state but for the session epoch.
C15_ResetClean ==
    [][Reset =>
          /\ PHASE' = "lobby"
          /\ CURRENT_INDEX' = -1
          /\ PLAYERS' = {}
          /\ NAME_INDEX' = <<>>
          /\ SCORES' = <<>>
          /\ CURRENT_ANSWERS' = <<>>
          /\ SUBMITTED' = {}
          /\ LAST_SUBMISSION_TS' = <<>>
          /\ LAST_SCORED_INDEX' = -1
          /\ EmptySnapshot(LB_ROWS_SNAPSHOT', LB_WINNERS_SNAPSHOT', LB_MAX_SNAPSHOT')]_vars

\* a reset has been answered after the clock moved on: the epoch is the only
\* trace of the session before
C15_Witness ==
    /\ result = ResetComplete
    /\ PHASE = "lobby"
    /\ PLAYERS = {}
    /\ LAST_SUBMISSION_TS = <<>>
    /\ QUIZ_SESSION > StartMs

\* C16 as stated: every start and every reset leaves the session epoch
\* different from what it was before the call, whatever the clock reads, and
\* no other step changes the epoch.
C16_Original ==
    [][/\ (Start \/ Reset) => QUIZ_SESSION' # QUIZ_SESSION
       /\ QUIZ_SESSION' # QUIZ_SESSION => (Start \/ Reset)]_vars

\* C17: with an empty question bank a start from the lobby moves straight to
\* final, the phase never being question, and the snapshot is taken on that
\* entry: one row with score 0 for every registered player, all of them
\* winners at a maximum of 0.
C17_EmptyBankStart ==
    /\ [](NumQuestions = 0 => PHASE \in {"lobby", "final"})
    /\ [][(PHASE = "lobby" /\ NumQuestions = 0 /\ Start) =>
             /\ PHASE' = "final"
             /\ Len(LB_ROWS_SNAPSHOT') = Cardinality(PLAYERS)
             /\ {LB_ROWS_SNAPSHOT'[i] : i \in 1..Len(LB_ROWS_SNAPSHOT')}
                   = {<<p, 0>> : p \in PLAYERS}
             /\ {LB_WINNERS_SNAPSHOT'[i] : i \in 1..Len(LB_WINNERS_SNAPSHOT')} = PLAYERS
             /\ LB_MAX_SNAPSHOT' = 0]_vars

\* two players registered in the lobby stand on the final leaderboard of a
\* quiz without questions
C17_Witness ==
    /\ NumQuestions = 0
    /\ result = QuizStarted
    /\ PHASE = "final"
    /\ CURRENT_INDEX = -1
    /\ Cardinality(PLAYERS) = 2
    /\ Len(LB_ROWS_SNAPSHOT) = 2
    /\ Len(LB_WINNERS_SNAPSHOT) = 2

\* C18: an advance in the lobby is refused with "Start the quiz first" and
\* changes nothing: phase, index, registry, scores, answers, snapshot and
\* epoch stay as they were.
C18_AdvanceInLobby ==
    [][(PHASE = "lobby" /\ Advance) =>
          /\ result' = StartFirst
          /\ UNCHANGED <<registry, board, session, snapshot, questions, now>>]_vars

\* the refusal is given with a player waiting in the lobby
C18_Witness ==
    /\ result = StartFirst
    /\ PHASE = "lobby"
    /\ CURRENT_INDEX = -1
    /\ PLAYERS # {}

---------------------------------------------------------------------------
(* Read queries *)

Query == PublicState \/ AdminState \/ Leaderboard

\* C19: the queries public_state, admin_state and leaderboard change no
\* session state in any phase: registry, scores, answers, submitted set,
\* timestamps, phase, index, marker, epoch and snapshot are the same after the
\* query as before; in particular a query never moves question to answer.
C19_QueriesReadOnly ==
    [][Query => UNCHANGED <<registry, board, session, snapshot, questions>>]_vars

\* the leaderboard is asked for while the second question is open: it is the
\* standing of the first reveal, not the live scores
C19_Witness ==
    /\ result = [status |-> 200, body |-> LeaderboardBody]
    /\ PHASE = "answer"
    /\ LB_ROWS_SNAPSHOT # <<>>
    /\ LB_ROWS_SNAPSHOT # SortedDesc(SCORES)

---------------------------------------------------------------------------
(* What the public state can depend on *)

\* The part of the state the public state is computed from, together with
\* what that part's own evolution reads: no answer key, no score, no marker,
\* no snapshot
Public ==
    [players |-> PLAYERS,
     index |-> NAME_INDEX,
     submitted |-> SUBMITTED,
     stamps |-> LAST_SUBMISSION_TS,
     phase |-> PHASE,
     current |-> CURRENT_INDEX,
     epoch |-> QUIZ_SESSION,
     clock |-> now]

\* the bank without its answer keys
PublicBank == [i \in 1..Len(questions) |->
                 [text |-> questions[i].text, options |-> questions[i].options,
                  note |-> questions[i].note]]

\* register and rename, on the public part
PublicRegister(P, requested, prev_raw) ==
    LET new_norm == Normalized[requested]
        new_lower == KeyOf[requested]
        prev_lower == KeyOf[prev_raw]
        prev_exists == prev_lower \in DOMAIN P.index
        added == [P EXCEPT !.players = @ \cup {new_norm},
                           !.index = DictSet(@, new_lower, new_norm)]
    IN  IF new_norm = <<>> THEN P
        ELSE IF Stripped[prev_raw] # <<>> /\ prev_exists /\ prev_lower = new_lower THEN P
        ELSE IF Stripped[prev_raw] # <<>> /\ P.phase # "lobby" THEN P
        ELSE IF new_lower \in DOMAIN P.index THEN P
        ELSE IF Stripped[prev_raw] # <<>> /\ prev_exists
        THEN LET old == P.index[prev_lower]
             IN  [P EXCEPT !.players = (@ \ {old}) \cup {new_norm},
                           !.index = DictSet(DictPop(@, prev_lower), new_lower, new_norm),
                           !.submitted = @ \ {old},
                           !.stamps = DictPop(@, old)]
        ELSE added

\* submit, on the public part: the option chosen is not read
PublicSubmit(P, raw) ==
    IF P.phase # "question" \/ SubmitKey(raw) \notin DOMAIN P.index THEN P
    ELSE LET canonical == P.index[SubmitKey(raw)]
             done == P.submitted \cup {canonical}
         IN  IF Throttled(P.stamps, canonical, P.clock) THEN P
             ELSE [P EXCEPT !.stamps = DictSet(@, canonical, P.clock),
                            !.submitted = done,
                            !.phase = IF AllSubmitted(P.players, done) THEN "answer" ELSE @]

PublicStart(P, total) ==
    [P EXCEPT !.epoch = P.clock,
              !.submitted = {},
              !.current = IF total > 0 THEN 0 ELSE -1,
              !.phase = IF total > 0 THEN "question" ELSE "final"]

PublicAdvance(P, total) ==
    IF P.phase = "question" THEN [P EXCEPT !.phase = "answer"]
    ELSE IF P.phase = "answer" THEN [P EXCEPT !.phase = "reveal"]
    ELSE IF P.phase = "reveal"
    THEN IF P.current + 1 < total
         THEN [P EXCEPT !.current = @ + 1, !.phase = "question", !.submitted = {}]
         ELSE [P EXCEPT !.phase = "final"]
    ELSE P

PublicReset(P) ==
    [P EXCEPT !.players = {}, !.index = <<>>, !.submitted = {}, !.stamps = <<>>,
              !.phase = "lobby", !.current = -1, !.epoch = P.clock]

\* the body of public_state, from the public part and the bank without keys
PublicView(P, bank) ==
    [session |-> P.epoch,
     phase |-> P.phase,
     current_index |-> P.current,
     total_questions |-> Len(bank),
     players_count |-> Cardinality(P.players),
     submissions_count |-> Cardinality(P.submitted),
     question |-> IF 0 <= P.current /\ P.current < Len(bank)
                  THEN <<bank[P.current + 1]>> ELSE <<>>]

\* C20: the value returned by public_state does not depend on the answer
\* keys of the bank. In every reachable state the value public_state returns
\* is computed from the public part of the state and the bank without its
\* keys, and no operation can take the public part anywhere but to the public
\* part computed from the old one, the request and the number of questions
\* alone. Two runs of one sequence of operations on banks that differ in the
\* answer keys only therefore go through the same public parts and return the
\* same public_state values at every step.
C20_PublicStateIgnoresKeys ==
    /\ \A name \in RawNames :
          /\ \A absent \in {n \in RawNames : RawNameList[n] = <<>>} :
                ~ENABLED (Register(name) /\ Public' # PublicRegister(Public, name, absent))
          /\ \A prev \in RawNames :
                ~ENABLED (Rename(prev, name) /\ Public' # PublicRegister(Public, name, prev))
          /\ \A answer \in Answers :
                ~ENABLED (Submit(name, answer) /\ Public' # PublicSubmit(Public, name))
    /\ ~ENABLED (Start /\ Public' # PublicStart(Public, NumQuestions))
    /\ ~ENABLED (Advance /\ Public' # PublicAdvance(Public, NumQuestions))
    /\ ~ENABLED (Reset /\ Public' # PublicReset(Public))
    /\ ~ENABLED (Tick /\ Public' # [Public EXCEPT !.clock = @ + TickMs])
    /\ ~ENABLED ((Query \/ Respond) /\ Public' # Public)
    /\ ~ENABLED (PublicState /\ result'.body # PublicView(Public, PublicBank))
    /\ ~ENABLED (Next /\ PublicBank' # PublicBank)

\* public_state is asked during the second question, after a question whose
\* key one player met and the other did not
C20_Witness ==
    /\ result = [status |-> 200, body |-> PublicBody]
    /\ PHASE = "question"
    /\ CURRENT_INDEX = 1
    /\ Len(SCORES) = 2
    /\ SCORES[1][2] # SCORES[2][2]
    /\ result.body.question # <<>>

---------------------------------------------------------------------------
(* Writers of the scores *)

\* the step is the scoring run of the current question
ScoringRun ==
    /\ PHASE = "question" /\ PHASE' = "answer"
    /\ LAST_SCORED_INDEX' = CURRENT_INDEX

\* C23 as stated: the score of a player who stays registered changes only in
\* the scoring run of the step from question to answer, and no score is
\* negative.
C23_Original ==
    /\ [](\A i \in 1..Len(SCORES) : SCORES[i][2] >= 0)
    /\ [][\A p \in PLAYERS \cap PLAYERS' : ScoreOf(p)' # ScoreOf(p) => ScoringRun]_vars

\* C23, amended: no score is negative, and the score of a player who stays
\* registered under the same name changes only in the scoring run of the step
\* from question to answer, where it grows by 1, or in a start, which sets it
\* to 0; register, rename, submit without auto-advance, advance from answer
\* or reveal, and the queries leave it as it was.
C23_ScoreWriters ==
    /\ [](\A i \in 1..Len(SCORES) : SCORES[i][2] >= 0)
    /\ [][\A p \in PLAYERS \cap PLAYERS' :
            ScoreOf(p)' # ScoreOf(p) =>
               \/ ScoringRun /\ ScoreOf(p)' = ScoreOf(p) + 1
               \/ Start /\ ScoreOf(p)' = 0]_vars

\* both questions have been scored: one player met both keys, the other none
C23_Witness ==
    /\ PHASE = "answer"
    /\ LAST_SCORED_INDEX = 1
    /\ \E p, q \in PLAYERS : ScoreOf(p) = 2 /\ ScoreOf(q) = 0

---------------------------------------------------------------------------
(* Answer board *)

EmptyBoard(submitted, answers) == submitted = {} /\ answers = <<>>

\* the step records an answer: a player has an answer it did not have
AnswerRecorded ==
    \E p \in DOMAIN CURRENT_ANSWERS' :
       p \notin DOMAIN CURRENT_ANSWERS \/ CURRENT_ANSWERS'[p] # CURRENT_ANSWERS[p]

\* C24: every entry to the question phase, by start or by advance from
\* reveal, and every change of the current index leaves no recorded answer
\* and nobody submitted, and an answer is recorded only by a submit in the
\* question phase, which keeps the index: the recorded answers and the
\* submitted set are those of the current question. The submitted set is
\* always the set of players with a recorded answer, is a subset of the
\* registered players, and is empty in lobby.
C24_AnswerBoard ==
    /\ [](/\ SUBMITTED = DOMAIN CURRENT_ANSWERS
          /\ SUBMITTED \subseteq PLAYERS
          /\ (PHASE = "lobby" => SUBMITTED = {}))
    /\ [][/\ (PHASE' = "question" /\ (PHASE # "question" \/ Start)) =>
                EmptyBoard(SUBMITTED', CURRENT_ANSWERS')
          /\ CURRENT_INDEX' # CURRENT_INDEX => EmptyBoard(SUBMITTED', CURRENT_ANSWERS')
          /\ (AnswerRecorded \/ ~(SUBMITTED' \subseteq SUBMITTED)) =>
                /\ PHASE = "question"
                /\ CURRENT_INDEX' = CURRENT_INDEX
                /\ SubmitStep]_vars

\* the first answer to the second question, after the first was answered by
\* both players
C24_Witness ==
    /\ PHASE = "question"
    /\ CURRENT_INDEX = 1
    /\ result = Accepted
    /\ Cardinality(PLAYERS) = 2
    /\ Cardinality(SUBMITTED) = 1
    /\ \A p \in PLAYERS : ScoreOf(p) = 1

---------------------------------------------------------------------------
(* Marker and registry *)

\* C25: the marker of the last scored question follows the phase: it is one
\* behind the current index in question, equal to it in answer, reveal and
\* final, and -1 in lobby. The names with a score are the registered
\* players, and the key index holds exactly these names, each under its own
\* case-folded key.
C25_MarkerAndRegistry ==
    /\ PHASE = "question" => LAST_SCORED_INDEX = CURRENT_INDEX - 1
    /\ PHASE \in {"answer", "reveal", "final"} => LAST_SCORED_INDEX = CURRENT_INDEX
    /\ PHASE = "lobby" => LAST_SCORED_INDEX = -1
    /\ ScoreNames(SCORES) = PLAYERS
    /\ Len(SCORES) = Cardinality(PLAYERS)
    /\ DOMAIN NAME_INDEX = {KeyOfCanonical(p) : p \in PLAYERS}
    /\ \A p \in PLAYERS : NAME_INDEX[KeyOfCanonical(p)] = p

\* the second question is open, the first is the last one scored, and a
\* player is registered under a spelling that is not its key
C25_Witness ==
    /\ PHASE = "question"
    /\ CURRENT_INDEX = 1
    /\ LAST_SCORED_INDEX = 0
    /\ Cardinality(PLAYERS) = 2
    /\ \E p \in PLAYERS : KeyOfCanonical(p) # p /\ ScoreOf(p) = 1

---------------------------------------------------------------------------
(* Handlers interleaved statement by statement. The server is started with
   app.run(), which serves every request in its own thread, and no handler
   takes a lock: between two statements of one handler any statement of
   another handler can run. The statements of api_submit, api_admin_advance
   and the functions they call are followed one by one; an action is named
   after the function and the line of its statement. *)

Quiet == \A t \in Threads : inflight[t].pc = "idle"

At(t, pc) == Idle /\ inflight[t].pc = pc

\* a request is taken by the first free thread
Free(t) == At(t, "idle") /\ \A u \in Threads : u < t => inflight[u].pc # "idle"

Goto(t, pc) == inflight' = [inflight EXCEPT ![t].pc = pc]

\* return response: the handler ends and its thread is free again
Return(t, response) ==
    /\ result' = response
    /\ inflight' = [inflight EXCEPT ![t] = IdleThread]

\* a submit request arrives; lines 663-665 compute the key from the payload
BeginSubmit(t, raw, answer) ==
    /\ Free(t)
    /\ inflight' = [inflight EXCEPT ![t] =
                      [IdleThread EXCEPT !.pc = "submit_660", !.key = SubmitKey(raw),
                                         !.answer = answer]]
    /\ UNCHANGED <<registry, board, session, snapshot, questions, now, result>>

submit_660(t) ==
    /\ At(t, "submit_660")
    /\ IF ~AcceptingAnswers
       THEN Return(t, NotAccepting)
       ELSE Goto(t, "submit_666") /\ UNCHANGED result
    /\ UNCHANGED <<registry, board, session, snapshot, questions, now>>

submit_666(t) ==
    /\ At(t, "submit_666")
    /\ IF ~Registered(inflight[t].key)
       THEN Return(t, PleaseRegister)
       ELSE Goto(t, "submit_668") /\ UNCHANGED result
    /\ UNCHANGED <<registry, board, session, snapshot, questions, now>>

submit_668(t) ==
    /\ At(t, "submit_668")
    /\ inflight' = [inflight EXCEPT ![t].canonical = NAME_INDEX[inflight[t].key],
                                    ![t].key = <<>>,
                                    ![t].pc = "submit_671"]
    /\ UNCHANGED <<registry, board, session, snapshot, questions, now, result>>

\* lines 670-672: the clock is read and compared with the last submission
submit_671(t) ==
    /\ At(t, "submit_671")
    /\ IF Throttled(LAST_SUBMISSION_TS, inflight[t].canonical, now)
       THEN Return(t, SlowDown)
       ELSE Goto(t, "submit_673") /\ UNCHANGED result
    /\ UNCHANGED <<registry, board, session, snapshot, questions, now>>

submit_673(t) ==
    /\ At(t, "submit_673")
    /\ LAST_SUBMISSION_TS' = DictSet(LAST_SUBMISSION_TS, inflight[t].canonical, now)
    /\ Goto(t, "submit_676")
    /\ UNCHANGED <<registry, SUBMITTED, CURRENT_ANSWERS, session, snapshot, questions, now,
                   result>>

\* lines 675-676
submit_676(t) ==
    /\ At(t, "submit_676")
    /\ CURRENT_ANSWERS' = DictSet(CURRENT_ANSWERS, inflight[t].canonical, inflight[t].answer)
    /\ inflight' = [inflight EXCEPT ![t].answer = None, ![t].pc = "submit_678"]
    /\ UNCHANGED <<registry, SUBMITTED, LAST_SUBMISSION_TS, session, snapshot, questions, now,
                   result>>

submit_678(t) ==
    /\ At(t, "submit_678")
    /\ SUBMITTED' = SUBMITTED \cup {inflight[t].canonical}
    /\ inflight' = [inflight EXCEPT ![t].canonical = <<>>, ![t].pc = "submit_680"]
    /\ UNCHANGED <<registry, CURRENT_ANSWERS, LAST_SUBMISSION_TS, session, snapshot, questions,
                   now, result>>

\* lines 680-681: the test, and the call of _advance_to_answer()
submit_680(t) ==
    /\ At(t, "submit_680")
    /\ IF AllSubmitted(PLAYERS, SUBMITTED)
       THEN inflight' = [inflight EXCEPT ![t].pc = "score_82", ![t].ret = "submit_683"]
       ELSE Goto(t, "submit_683")
    /\ UNCHANGED <<registry, board, session, snapshot, questions, now, result>>

\* an advance request arrives from the admin; line 738 loads the bank
BeginAdvance(t) ==
    /\ Free(t)
    /\ inflight' = [inflight EXCEPT ![t] = [IdleThread EXCEPT !.pc = "advance_739"]]
    /\ UNCHANGED <<registry, board, session, snapshot, questions, now, result>>

\* lines 739-740: the test, and the call of _advance_to_answer()
advance_739(t) ==
    /\ At(t, "advance_739")
    /\ IF PHASE = "question"
       THEN inflight' = [inflight EXCEPT ![t].pc = "score_82", ![t].ret = "advance_741"]
       ELSE Goto(t, "advance_742")
    /\ UNCHANGED <<registry, board, session, snapshot, questions, now, result>>

\* lines 742-743: the test, and the call of _advance_to_reveal()
advance_742(t) ==
    /\ At(t, "advance_742")
    /\ IF PHASE = "answer" THEN Goto(t, "reveal_709") ELSE Goto(t, "advance_745")
    /\ UNCHANGED <<registry, board, session, snapshot, questions, now, result>>

\* lines 745-746 and 750-751: the tests, and the call of _advance_to_final()
advance_745(t) ==
    /\ At(t, "advance_745")
    /\ IF PHASE = "reveal"
       THEN IF HasNext(CURRENT_INDEX) THEN Goto(t, "advance_747") ELSE Goto(t, "final_714")
       ELSE Goto(t, "advance_753")
    /\ UNCHANGED <<registry, board, session, snapshot, questions, now, result>>

\* lines 747-748: the increment, and the call of _advance_to_question()
advance_747(t) ==
    /\ At(t, "advance_747")
    /\ CURRENT_INDEX' = CURRENT_INDEX + 1
    /\ Goto(t, "question_698")
    /\ UNCHANGED <<registry, board, PHASE, LAST_SCORED_INDEX, QUIZ_SESSION, snapshot, questions,
                   now, result>>

\* lines 753-756
advance_753(t) ==
    /\ At(t, "advance_753")
    /\ Return(t, IF NotStarted THEN StartFirst ELSE AlreadyFinal)
    /\ UNCHANGED <<registry, board, session, snapshot, questions, now>>

\* score_current_question_once(), line 82
score_82(t) ==
    /\ At(t, "score_82")
    /\ IF AlreadyScored(CURRENT_INDEX, LAST_SCORED_INDEX)
       THEN Goto(t, "answer_705")
       ELSE Goto(t, "score_84")
    /\ UNCHANGED <<registry, board, session, snapshot, questions, now, result>>

\* lines 84-91: the current question and its answer key are read; a question
\* that cannot be scored goes on to set the marker
score_84(t) ==
    /\ At(t, "score_84")
    /\ IF ~HasQuestion(CURRENT_INDEX) \/ CorrectIdx(CURRENT_INDEX) = None
       THEN Goto(t, "score_96")
       ELSE inflight' = [inflight EXCEPT ![t].correct = CorrectIdx(CURRENT_INDEX),
                                         ![t].pc = "score_92"]
    /\ UNCHANGED <<registry, board, session, snapshot, questions, now, result>>

\* line 92: the iteration over PLAYERS begins, in some order
score_92(t) ==
    /\ At(t, "score_92")
    /\ \E order \in Orders(PLAYERS) :
          inflight' = [inflight EXCEPT ![t].todo = order,
                                       ![t].pc = IF order = <<>> THEN "score_96"
                                                 ELSE "score_93"]
    /\ UNCHANGED <<registry, board, session, snapshot, questions, now, result>>

score_93(t) ==
    /\ At(t, "score_93")
    /\ inflight' = [inflight EXCEPT ![t].ans = AnswerOf(CURRENT_ANSWERS, Head(inflight[t].todo)),
                                    ![t].pc = "score_94"]
    /\ UNCHANGED <<registry, board, session, snapshot, questions, now, result>>

\* lines 94-95, and line 92 again: the next player, or the end of the loop
score_94(t) ==
    /\ At(t, "score_94")
    /\ LET name == Head(inflight[t].todo)
           rest == Tail(inflight[t].todo)
       IN  /\ SCORES' = IF Awarded(inflight[t].ans, inflight[t].correct)
                        THEN ScoreSet(SCORES, name, ScoreGet(SCORES, name) + 1)
                        ELSE SCORES
           /\ inflight' = [inflight EXCEPT ![t].todo = rest,
                                           ![t].ans = None,
                                           ![t].pc = IF rest = <<>> THEN "score_96"
                                                     ELSE "score_93"]
    /\ UNCHANGED <<PLAYERS, NAME_INDEX, board, session, snapshot, questions, now, result>>

\* lines 86, 90 and 96: the marker is set and the function returns
score_96(t) ==
    /\ At(t, "score_96")
    /\ LAST_SCORED_INDEX' = CURRENT_INDEX
    /\ inflight' = [inflight EXCEPT ![t].pc = "answer_705", ![t].correct = None]
    /\ UNCHANGED <<registry, board, PHASE, CURRENT_INDEX, QUIZ_SESSION, snapshot, questions,
                   now, result>>

\* _advance_to_answer(), line 705, and the return to the caller
answer_705(t) ==
    /\ At(t, "answer_705")
    /\ PHASE' = "answer"
    /\ inflight' = [inflight EXCEPT ![t].pc = inflight[t].ret, ![t].ret = "idle"]
    /\ UNCHANGED <<registry, board, CURRENT_INDEX, LAST_SCORED_INDEX, QUIZ_SESSION, snapshot,
                   questions, now, result>>

\* _advance_to_reveal(), line 709, and the call of snapshot_leaderboard()
reveal_709(t) ==
    /\ At(t, "reveal_709")
    /\ PHASE' = "reveal"
    /\ inflight' = [inflight EXCEPT ![t].pc = "snapshot_101", ![t].ret = "advance_744"]
    /\ UNCHANGED <<registry, board, CURRENT_INDEX, LAST_SCORED_INDEX, QUIZ_SESSION, snapshot,
                   questions, now, result>>

\* _advance_to_final(), line 714, and the call of snapshot_leaderboard()
final_714(t) ==
    /\ At(t, "final_714")
    /\ PHASE' = "final"
    /\ inflight' = [inflight EXCEPT ![t].pc = "snapshot_101", ![t].ret = "advance_752"]
    /\ UNCHANGED <<registry, board, CURRENT_INDEX, LAST_SCORED_INDEX, QUIZ_SESSION, snapshot,
                   questions, now, result>>

\* snapshot_leaderboard(), line 101: the sorted rows, in a local
snapshot_101(t) ==
    /\ At(t, "snapshot_101")
    /\ inflight' = [inflight EXCEPT ![t].rows = SortedDesc(SCORES), ![t].pc = "snapshot_102"]
    /\ UNCHANGED <<registry, board, session, snapshot, questions, now, result>>

snapshot_102(t) ==
    /\ At(t, "snapshot_102")
    /\ LB_ROWS_SNAPSHOT' = inflight[t].rows
    /\ inflight' = [inflight EXCEPT ![t].rows = <<>>, ![t].pc = "snapshot_103"]
    /\ UNCHANGED <<registry, board, session, LB_WINNERS_SNAPSHOT, LB_MAX_SNAPSHOT, questions,
                   now, result>>

\* line 103: winners and maximum, and the return to the caller
snapshot_103(t) ==
    /\ At(t, "snapshot_103")
    /\ LB_WINNERS_SNAPSHOT' = winners_from_scores(SCORES)[1]
    /\ LB_MAX_SNAPSHOT' = winners_from_scores(SCORES)[2]
    /\ inflight' = [inflight EXCEPT ![t].pc = inflight[t].ret, ![t].ret = "idle"]
    /\ UNCHANGED <<registry, board, session, LB_ROWS_SNAPSHOT, questions, now, result>>

\* _advance_to_question(), lines 698-700
question_698(t) ==
    /\ At(t, "question_698")
    /\ PHASE' = "question"
    /\ Goto(t, "question_699")
    /\ UNCHANGED <<registry, board, CURRENT_INDEX, LAST_SCORED_INDEX, QUIZ_SESSION, snapshot,
                   questions, now, result>>

question_699(t) ==
    /\ At(t, "question_699")
    /\ SUBMITTED' = {}
    /\ Goto(t, "question_700")
    /\ UNCHANGED <<registry, CURRENT_ANSWERS, LAST_SUBMISSION_TS, session, snapshot, questions,
                   now, result>>

question_700(t) ==
    /\ At(t, "question_700")
    /\ CURRENT_ANSWERS' = <<>>
    /\ Goto(t, "advance_749")
    /\ UNCHANGED <<registry, SUBMITTED, LAST_SUBMISSION_TS, session, snapshot, questions, now,
                   result>>

\* the return statements behind the calls: lines 683, 741, 744, 749, 752
ReturnOf(pc) ==
    CASE pc = "submit_683" -> Accepted
      [] pc = "advance_741" -> ShowingAnswer
      [] pc = "advance_744" -> ShowingLeaderboard
      [] pc = "advance_749" -> NextQuestion
      [] pc = "advance_752" -> QuizFinished

Returning == {"submit_683", "advance_741", "advance_744", "advance_749", "advance_752"}

handler_return(t) ==
    /\ Idle
    /\ inflight[t].pc \in Returning
    /\ Return(t, ReturnOf(inflight[t].pc))
    /\ UNCHANGED <<registry, board, session, snapshot, questions, now>>

\* one statement of the handler in flight on thread t
Statement(t) ==
    \/ submit_660(t) \/ submit_666(t) \/ submit_668(t) \/ submit_671(t)
    \/ submit_673(t) \/ submit_676(t) \/ submit_678(t) \/ submit_680(t)
    \/ advance_739(t) \/ advance_742(t) \/ advance_745(t) \/ advance_747(t)
    \/ advance_753(t)
    \/ score_82(t) \/ score_84(t) \/ score_92(t) \/ score_93(t) \/ score_94(t)
    \/ score_96(t)
    \/ answer_705(t) \/ reveal_709(t) \/ final_714(t)
    \/ snapshot_101(t) \/ snapshot_102(t) \/ snapshot_103(t)
    \/ question_698(t) \/ question_699(t) \/ question_700(t)
    \/ handler_return(t)

\* the names of the requests followed statement by statement: the name of
\* one letter spelled as its key, one player
ThreadedNames == {n \in RawNames : RawNameList[n] = KeyOf[n] /\ Len(KeyOf[n]) = 1}

\* the bank has all its questions
InitThreaded == Init /\ Len(questions) = MaxQuestions

\* register and start are taken as a whole, while no other handler is in
\* flight; the leaderboard query is a single statement and runs at any point
NextThreaded ==
    \/ \E t \in Threads, raw \in ThreadedNames, answer \in Options :
          BeginSubmit(t, raw, answer)
    \/ \E t \in Threads : BeginAdvance(t)
    \/ \E t \in Threads : Statement(t)
    \/ \E name \in ThreadedNames : Quiet /\ Register(name)
    \/ Quiet /\ Start
    \/ Leaderboard
    \/ Respond

SpecThreaded == InitThreaded /\ [][NextThreaded]_vars

---------------------------------------------------------------------------
(* Overlapping handlers *)

\* C21 as stated: with the handlers interleaved statement by statement every
\* question adds at most 1 to a player's score: no score exceeds the number
\* of questions opened since the start.
C21_Original ==
    \A i \in 1..Len(SCORES) : SCORES[i][2] <= CURRENT_INDEX + 1

\* the rows, winners and maximum of a leaderboard response belong together
OneRecompute(body) == SnapshotOf(body.rows, body.winners, body.max_score, body.rows)

\* every row of a leaderboard response is the player's entry in the scores
RowsCurrent(body) ==
    \A i \in 1..Len(body.rows) : \E j \in 1..Len(SCORES) : SCORES[j] = body.rows[i]

\* C22 as stated, for the leaderboard query: with the handlers interleaved
\* statement by statement a leaderboard response never pairs the rows of one
\* recompute with the winners and maximum of another, and a response given in
\* phase reveal or final never shows the scores from before the transition.
C22_Original ==
    [][Leaderboard =>
          /\ OneRecompute(result'.body)
          /\ PHASE \in {"reveal", "final"} => RowsCurrent(result'.body)]_vars

=============================================================================
